---- MODULE Spec2Model ----
(***************************************************************************)
(* Pizza42 backend: the JWT verification / claims-trust / authorization    *)
(* middleware chain of POST and GET /api/orders, the two order stores      *)
(* (Auth0 user_metadata list, DynamoDB table) and the profile helpers, for *)
(* the four server variants of the repository:                             *)
(*   "profile"  src/backend/server.js 1-349    (user_metadata store)       *)
(*   "dynamodb" src/backend/server.js 351-862  (DynamoDB store)            *)
(*   "simple"   src/backend/server.js 864-1009 (no claims-trust chain)     *)
(*   "https"    src/unnamed/part_000 32-216    (express-jwt, no gates)     *)
(* A JavaScript value that may be undefined is a tuple: <<>> is undefined, *)
(* <<v>> is the value v.                                                   *)
(***************************************************************************)
EXTENDS Integers, Sequences, FiniteSets, TLC

VARIABLES variant, management, now, reqs, userMetadata, table, call

vars == <<variant, management, now, reqs, userMetadata, table, call>>

\* ---------------------------------------------------------------- bounds
MaxReq == 2
MaxClock == 2

\* ------------------------------------------------- process.env / literals
AUTH0_AUDIENCE == "https://pizza42-api"
AUTH0_CLIENT_ID == "spa-client-id"
Issuer == "https://tenant.auth0.com/"
PlaceOrders == "place:orders"
HourMs == 3600000

Variants == {"profile", "dynamodb", "simple", "https"}
Users == {"auth0|u1", "auth0|u2"}
Reqs == 1..MaxReq

Undefined == <<>>
Some(v) == <<v>>

\* ------------------------------------------------------- JavaScript values
\* !v for an optional boolean, string, number
FalsyBool(v) == v = Undefined \/ v[1] = FALSE
FalsyStr(v) == v = Undefined \/ v[1] = ""
FalsyNum(v) == v = Undefined \/ v[1] = 0

\* String.prototype.includes: p occurs in s as a contiguous substring
StrIncludes(s, p) ==
    \E i \in 1..(Len(s) - Len(p) + 1) : SubSeq(s, i, i + Len(p) - 1) = p

\* ------------------------------------------------------------ wall clock
\* Date.now() is 1762423210000 + now (2025-11-06T10:00:10.000Z + now ms);
\* the number exceeds TLC's integers, so its decimal digits are kept apart.
Pad3(n) == IF n < 10 THEN "00" \o ToString(n)
           ELSE IF n < 100 THEN "0" \o ToString(n) ELSE ToString(n)
\* Date.now().toString()
DateNowString(t) == "1762423210" \o Pad3(t)
\* new Date().toISOString()
ToISOString(t) == "2025-11-06T10:00:10." \o Pad3(t) \o "Z"

\* new Date(s) - new Date(T0), for the date strings the inputs use
VerifiedAtHourAgo == "2025-11-06T09:00:10.000Z"
VerifiedAtNow == "2025-11-06T10:00:10.000Z"
\* The date a client's clock puts in a request body, and a date field that
\* is no date
ClientDate == "2025-11-06T09:59:59.000Z"
InvalidDate == "not a date"
\* !isNaN(new Date(s).getTime())
ValidDate(s) ==
    s \in {VerifiedAtHourAgo, ClientDate} \cup {ToISOString(t) : t \in 0..MaxClock}
DateParse(s) ==
    IF s = VerifiedAtHourAgo THEN 0 - HourMs
    ELSE IF s = ClientDate THEN 0 - 11000
    ELSE IF \E t \in 0..MaxClock : s = ToISOString(t)
    THEN CHOOSE t \in 0..MaxClock : s = ToISOString(t)
    ELSE 0

\* ------------------------------------------------------------- the inputs
\* payload.aud is a string or an array of strings
AudStr(s) == [array |-> FALSE, v |-> <<s>>]
AudArr(q) == [array |-> TRUE, v |-> q]
EmailOf(u) == u \o "@example.com"

Tri == {Undefined, Some(TRUE), Some(FALSE)}

\* Claims of a token that every gate of every variant lets through
PassClaims(u) ==
    [sub |-> u, email |-> EmailOf(u), email_verified |-> Some(TRUE),
     scope |-> Some(PlaceOrders), token_verified_at |-> Some(VerifiedAtNow),
     ns_email_verified |-> Some(TRUE), ns_can_place_orders |-> Some(TRUE)]

\* Claims of a token as the SPA gets it for a user who has not verified yet
BareClaims(u) ==
    [sub |-> u, email |-> EmailOf(u), email_verified |-> Some(FALSE),
     scope |-> Undefined, token_verified_at |-> Undefined,
     ns_email_verified |-> Undefined, ns_can_place_orders |-> Undefined]

ScopeClaims ==
    {Undefined, Some(""), Some(PlaceOrders), Some("read:orders"),
     Some("openid place:orders"), Some("replace:orders"),
     Some("read:orders place:orders:all")}

AllClaims(u) ==
    [sub : {u}, email : {EmailOf(u)}, email_verified : Tri,
     scope : ScopeClaims,
     token_verified_at : {Undefined, Some(VerifiedAtHourAgo), Some(VerifiedAtNow)},
     ns_email_verified : Tri, ns_can_place_orders : Tri]

GoodAuds ==
    {AudStr(AUTH0_AUDIENCE), AudStr(AUTH0_CLIENT_ID),
     AudArr(<<AUTH0_AUDIENCE, "https://tenant.auth0.com/userinfo">>)}
Auds == GoodAuds \cup {AudStr("https://other-api"), AudArr(<<AUTH0_CLIENT_ID, "x">>)}

\* The Authorization header: absent (or without a second word), a word
\* jwt.decode cannot decode, or a JWT with its header, signature and payload.
MkToken(raw, alg, kid, sig, iss, aud, expired, claims) ==
    [raw |-> raw, alg |-> alg, kid |-> kid, sig |-> sig, iss |-> iss,
     aud |-> aud, expired |-> expired, claims |-> claims]
AbsentToken ==
    MkToken("absent", "RS256", "known", "valid", Issuer,
            AudStr(AUTH0_AUDIENCE), FALSE, BareClaims("auth0|u1"))
MalformedToken == [AbsentToken EXCEPT !.raw = "malformed"]

\* Tokens that differ in everything verifyToken looks at
VerifyTokens ==
    {AbsentToken, MalformedToken} \cup
    { MkToken("jwt", alg, kid, sig, iss, aud, expired, claims) :
        alg \in {"RS256", "HS256", "none"}, kid \in {"known", "unknown"},
        sig \in {"valid", "invalid"},
        iss \in {Issuer, "https://evil.example.com/"}, aud \in Auds,
        expired \in BOOLEAN,
        claims \in {PassClaims("auth0|u1"), BareClaims("auth0|u1")} }

\* Correctly signed, unexpired tokens that differ in the claims the
\* claims-trust middleware and the email gate read
TrustTokens ==
    { MkToken("jwt", "RS256", "known", "valid", Issuer, aud, FALSE, claims) :
        aud \in GoodAuds,
        claims \in { c \in AllClaims("auth0|u1") :
                       c.scope \in {Undefined, Some(PlaceOrders)} } }

\* Correctly signed, unexpired tokens of a verified user that differ in scope
ScopeTokens ==
    { MkToken("jwt", "RS256", "known", "valid", Issuer, aud, FALSE,
              [PassClaims("auth0|u1") EXCEPT !.scope = sc]) :
        aud \in GoodAuds, sc \in ScopeClaims }

\* Tokens of the users whose requests run concurrently
UserTokens ==
    { MkToken("jwt", "RS256", "known", "valid", Issuer,
              AudStr(AUTH0_AUDIENCE), FALSE, PassClaims(u)) : u \in Users }

\* (userId: a field the handlers do not read)
MkBody(pizza, size, total, date) ==
    [pizza |-> pizza, size |-> size, total |-> total, date |-> date,
     userId |-> Undefined]
Bodies ==
    { MkBody(pizza, size, total, date) :
        pizza \in {Undefined, Some("Margherita")},
        size \in {Undefined, Some("medium")},
        total \in {Undefined, Some(0), Some(16)},
        date \in {Undefined, Some(ClientDate)} }
\* A body whose total is a negative number
NegativeBody == MkBody(Some("Margherita"), Some("medium"), Some(-16), Undefined)
\* pizzaOptions of the order form; the r-th request orders the r-th of them
PizzaOptions == <<"Margherita", "Pepperoni", "Supreme", "Hawaiian">>
\* and names the second user as its userId
FullBody(r) ==
    [MkBody(Some(PizzaOptions[((r - 1) % Len(PizzaOptions)) + 1]),
            Some("medium"), Some(16),
            IF r % 2 = 0 THEN Some(ClientDate) ELSE Undefined)
       EXCEPT !.userId = Some("auth0|u2")]

\* --------------------------------------------------------- request state
\* pc: the middleware or await the request is at; ran: the middlewares that
\* have run; status = 0: no response sent yet.
IdleReq ==
    [pc |-> "idle", method |-> "POST", token |-> AbsentToken,
     body |-> MkBody(Undefined, Undefined, Undefined, Undefined),
     jwks |-> "", user |-> Undefined, auth |-> Undefined,
     tokenType |-> Undefined,
     idTokenVerification |-> Undefined, verificationWarnings |-> <<>>,
     order |-> Undefined, snapshot |-> Undefined, ran |-> <<>>,
     status |-> 0, error |-> "", details |-> Undefined, resp |-> Undefined]

\* The helper call under analysis: none while the server runs
NoCall == [fn |-> "", arr |-> <<>>, returned |-> FALSE, value |-> Undefined]

Init ==
    /\ variant \in Variants
    /\ management \in BOOLEAN
    /\ (variant # "https" => management)
    /\ now = 0
    /\ reqs = [r \in Reqs |-> IdleReq]
    /\ userMetadata = [u \in Users |-> <<>>]
    /\ table = {}
    /\ call = NoCall

\* The wall clock advances; a reading is taken by verifyIdTokenClaims and
\* by the route handler, so the steps between two readings are not told apart
Tick ==
    /\ now < MaxClock
    /\ \E r \in Reqs : reqs[r].pc \in {"verifyIdTokenClaims", "handler"}
    /\ now' = now + 1
    /\ UNCHANGED <<call, variant, management, reqs, userMetadata, table>>

\* A client sends POST /api/orders
Arrive(r, tok, body) ==
    /\ reqs[r].pc = "idle"
    /\ reqs' = [reqs EXCEPT ![r] = [IdleReq EXCEPT !.pc = "verifyToken",
                                                   !.token = tok,
                                                   !.body = body]]
    /\ UNCHANGED <<call, variant, management, now, userMetadata, table>>

\* The client of a request that was answered sends another POST /api/orders
ArriveAgain(r, tok, body) ==
    /\ reqs[r].pc = "done"
    /\ reqs[r].method = "POST"
    /\ reqs[r].body = FullBody(r)
    /\ reqs' = [reqs EXCEPT ![r] = [IdleReq EXCEPT !.pc = "verifyToken",
                                                   !.token = tok,
                                                   !.body = body]]
    /\ UNCHANGED <<call, variant, management, now, userMetadata, table>>

\* The client of a request that was answered sends GET /api/orders with the
\* same token (a request that has not been sent yet does, too)
ArriveGet(r, tok) ==
    /\ reqs[r].pc \in {"idle", "done"}
    /\ reqs[r].method = "POST"
    /\ reqs' = [reqs EXCEPT ![r] = [IdleReq EXCEPT !.pc = "verifyToken",
                                                   !.method = "GET",
                                                   !.token = tok]]
    /\ UNCHANGED <<call, variant, management, now, userMetadata, table>>

\* A scope gate that answers and calls next() all the same
RespondAndGoOn(q, name, code, msg) ==
    [q EXCEPT !.pc = IF name = "requireScope" THEN "handler" ELSE "done",
              !.ran = Append(@, name), !.status = code, !.error = msg]

\* res.status(code).json({error: msg}) in the middleware `name`: the chain
\* ends for this request
Respond(q, name, code, msg) ==
    [q EXCEPT !.pc = "done", !.ran = Append(@, name), !.status = code,
              !.error = msg]
\* next() in the middleware `name`: the request goes on to the middleware m
Pass(q, name, m) == [q EXCEPT !.pc = m, !.ran = Append(@, name)]

\* ------------------------------------------------------ token verification
\* The decoded payload: the registered claims and the custom ones
Payload(tok) ==
    [iss |-> tok.iss, aud |-> tok.aud, sub |-> tok.claims.sub,
     email |-> tok.claims.email, email_verified |-> tok.claims.email_verified,
     scope |-> tok.claims.scope,
     token_verified_at |-> tok.claims.token_verified_at,
     ns_email_verified |-> tok.claims.ns_email_verified,
     ns_can_place_orders |-> tok.claims.ns_can_place_orders]

Range(q) == { q[i] : i \in 1..Len(q) }

\* jwt.verify that does not check the signature (as jwt.decode does)
JwtVerifyUnsigned(tok, audiences, issuer, algorithms) ==
    IF tok.alg \notin algorithms THEN "invalid algorithm"
    ELSE IF tok.expired THEN "jwt expired"
    ELSE IF Range(tok.aud.v) \cap audiences = {} THEN "jwt audience invalid"
    ELSE IF tok.iss # issuer THEN "jwt issuer invalid"
    ELSE "ok"

\* jwt.verify(token, key, {audience, issuer, algorithms}): "ok" or the
\* message of the error it throws
JwtVerify(tok, audiences, issuer, algorithms) ==
    IF tok.alg = "none" THEN "jwt signature is required"
    ELSE IF tok.alg \notin algorithms THEN "invalid algorithm"
    ELSE IF tok.sig # "valid" THEN "invalid signature"
    ELSE IF tok.expired THEN "jwt expired"
    ELSE IF Range(tok.aud.v) \cap audiences = {} THEN "jwt audience invalid"
    ELSE IF tok.iss # issuer THEN "jwt issuer invalid"
    ELSE "ok"

\* An audience option that lets the audience of any API of the tenant through
AudiencesOfTenant(v) ==
    {AUTH0_AUDIENCE, AUTH0_CLIENT_ID, "https://other-api"}

\* The audience option of the variant's jwt.verify / express-jwt call
Audiences(v) ==
    IF v \in {"profile", "dynamodb"} THEN {AUTH0_AUDIENCE, AUTH0_CLIENT_ID}
    ELSE {AUTH0_AUDIENCE}

\* req.tokenType without the Array.isArray branch
TokenTypeOfString(payload) ==
    IF payload.aud.v = <<AUTH0_AUDIENCE>> THEN "access_token" ELSE "id_token"

\* req.tokenType
TokenType(payload) ==
    IF payload.aud.array
    THEN (IF AUTH0_AUDIENCE \in Range(payload.aud.v)
          THEN "access_token" ELSE "id_token")
    ELSE (IF payload.aud.v[1] = AUTH0_AUDIENCE
          THEN "access_token" ELSE "id_token")

\* A chain that goes from verifyToken straight to the scope gate
AfterVerifyTokenSkipping(v, method) == "requireScope"

\* The middleware that follows verifyToken on POST and on GET /api/orders
AfterVerifyToken(v, method) ==
    IF v # "simple" THEN "verifyIdTokenClaims"
    ELSE IF method = "POST" THEN "requireScope" ELSE "handler"

\* verifyToken up to `await client.getSigningKey(...)`
VerifyTokenBegin(r) ==
    LET q == reqs[r] IN
    /\ variant \in {"profile", "dynamodb", "simple"}
    /\ q.pc = "verifyToken"
    /\ reqs' = [reqs EXCEPT ![r] =
         IF q.token.raw = "absent"
         THEN Respond(q, "verifyToken", 401, "No token provided")
         ELSE IF q.token.raw = "malformed"
         THEN Respond(q, "verifyToken", 401,
                      IF variant = "simple" THEN "Invalid token"
                      ELSE "Invalid token format")
         ELSE [q EXCEPT !.pc = "awaitKey"]]
    /\ UNCHANGED <<call, variant, management, now, userMetadata, table>>

\* verifyToken after the key fetch settled: jwt.verify, req.user,
\* req.tokenType, next(); every throw lands in the catch block
VerifyTokenEnd(r) ==
    LET q == reqs[r] IN
    /\ variant \in {"profile", "dynamodb", "simple"}
    /\ q.pc = "awaitKey"
    /\ \E reachable \in BOOLEAN :
         LET found == reachable /\ q.token.kid = "known"
             q1 == [q EXCEPT !.jwks = IF found THEN "resolved" ELSE "rejected"]
             e == JwtVerify(q.token, Audiences(variant), Issuer, {"RS256"})
         IN reqs' = [reqs EXCEPT ![r] =
              IF ~found \/ e # "ok"
              THEN Respond(q1, "verifyToken", 401, "Invalid token")
              ELSE Pass([q1 EXCEPT !.user = Some(Payload(q.token)),
                                   !.tokenType =
                                      IF variant = "simple" THEN Undefined
                                      ELSE Some(TokenType(Payload(q.token)))],
                        "verifyToken", AfterVerifyToken(variant, q.method))]
    /\ UNCHANGED <<call, variant, management, now, userMetadata, table>>

\* express-jwt's checkJwt with jwksRsa.expressJwtSecret, and the error
\* middleware its next(err) reaches
CheckJwt(r) ==
    LET q == reqs[r] IN
    /\ variant = "https"
    /\ q.pc = "verifyToken"
    /\ \E reachable \in BOOLEAN :
         LET q1 == [q EXCEPT !.jwks = IF reachable /\ q.token.kid = "known"
                                      THEN "resolved" ELSE "rejected"]
             e == JwtVerify(q.token, Audiences(variant), Issuer, {"RS256"})
         IN reqs' = [reqs EXCEPT ![r] =
              IF q.token.raw # "jwt"
              THEN Respond(q, "checkJwt", 401, "Invalid token")
              ELSE IF ~reachable
              THEN Respond(q1, "checkJwt", 500, "Something went wrong!")
              ELSE IF q.token.kid # "known" \/ e # "ok"
              THEN Respond(q1, "checkJwt", 401, "Invalid token")
              ELSE Pass([q1 EXCEPT !.auth = Some(Payload(q.token))],
                        "checkJwt", "handler")]
    /\ UNCHANGED <<call, variant, management, now, userMetadata, table>>

\* ------------------------------------------------------------ claims trust
\* A trust result that fails closed when the verified-at claim is missing
IdTokenVerificationClosed(user) ==
    IF ~FalsyStr(user.token_verified_at)
    THEN [verified |-> TRUE, verifiedAt |-> user.token_verified_at,
          emailVerified |-> user.ns_email_verified,
          canPlaceOrders |-> user.ns_can_place_orders,
          reason |-> Undefined]
    ELSE [verified |-> FALSE, verifiedAt |-> Undefined,
          emailVerified |-> Some(FALSE), canPlaceOrders |-> Some(FALSE),
          reason |-> Some("No Post-Login Action verification claims found")]

\* A trust result that always derives the flags from the raw claim
IdTokenVerificationRaw(user) ==
    [verified |-> ~FalsyStr(user.token_verified_at),
     verifiedAt |-> user.token_verified_at,
     emailVerified |-> Some(~FalsyBool(user.email_verified)),
     canPlaceOrders |-> Some(~FalsyBool(user.email_verified)),
     reason |-> IF ~FalsyStr(user.token_verified_at) THEN Undefined
                ELSE Some("No Post-Login Action verification claims found")]

\* verifyIdTokenClaims: never responds; fills req.idTokenVerification and
\* req.verificationWarnings and calls next()
IdTokenVerification(user) ==
    IF ~FalsyStr(user.token_verified_at)
    THEN [verified |-> TRUE, verifiedAt |-> user.token_verified_at,
          emailVerified |-> user.ns_email_verified,
          canPlaceOrders |-> user.ns_can_place_orders,
          reason |-> Undefined]
    ELSE [verified |-> FALSE, verifiedAt |-> Undefined,
          emailVerified |-> Some(~FalsyBool(user.email_verified)),
          canPlaceOrders |-> Some(~FalsyBool(user.email_verified)),
          reason |-> Some("No Post-Login Action verification claims found")]

\* A staleness threshold of one day
StaleAfterADay(user, t) ==
    /\ ~FalsyStr(user.token_verified_at)
    /\ t - DateParse(user.token_verified_at[1]) > 24 * HourMs

\* hoursSinceVerification > 1 at clock reading t
Stale(user, t) ==
    /\ ~FalsyStr(user.token_verified_at)
    /\ t - DateParse(user.token_verified_at[1]) > HourMs

VerifyIdTokenClaims(r) ==
    LET q == reqs[r]
        user == q.user[1]
    IN
    /\ variant \in {"profile", "dynamodb"}
    /\ q.pc = "verifyIdTokenClaims"
    /\ reqs' = [reqs EXCEPT ![r] =
         Pass([q EXCEPT !.idTokenVerification = Some(IdTokenVerification(user)),
                        !.verificationWarnings =
                           IF Stale(user, now)
                           THEN Append(@, "Token verification is stale")
                           ELSE @],
              "verifyIdTokenClaims", "requireEmailVerification")]
    /\ UNCHANGED <<call, variant, management, now, userMetadata, table>>

\* ------------------------------------------------------------------ gates
\* requireEmailVerification without its canPlaceOrders check
EmailGateEmailOnly(verification) ==
    IF verification = Undefined THEN "Email verification status unknown"
    ELSE IF FalsyBool(verification[1].emailVerified)
    THEN "Email verification required"
    ELSE ""

\* requireEmailVerification: "" when the request may go on, else the error
\* of the 403 it answers
EmailGate(verification) ==
    IF verification = Undefined THEN "Email verification status unknown"
    ELSE IF FalsyBool(verification[1].emailVerified)
    THEN "Email verification required"
    ELSE IF FalsyBool(verification[1].canPlaceOrders)
    THEN "Order access restricted"
    ELSE ""

RequireEmailVerification(r) ==
    LET q == reqs[r]
        e == EmailGate(q.idTokenVerification)
    IN
    /\ variant \in {"profile", "dynamodb"}
    /\ q.pc = "requireEmailVerification"
    /\ reqs' = [reqs EXCEPT ![r] =
         IF e # "" THEN Respond(q, "requireEmailVerification", 403, e)
         ELSE Pass(q, "requireEmailVerification",
                   IF q.method = "POST" THEN "requireScope" ELSE "handler")]
    /\ UNCHANGED <<call, variant, management, now, userMetadata, table>>

\* requireScope(requiredScope): !(!scope || !scope.includes(requiredScope))
ScopeAllows(scope, requiredScope) ==
    ~FalsyStr(scope) /\ StrIncludes(scope[1], requiredScope)

RequireScope(r) ==
    LET q == reqs[r] IN
    /\ variant \in {"profile", "dynamodb", "simple"}
    /\ q.pc = "requireScope"
    /\ reqs' = [reqs EXCEPT ![r] =
         IF ~ScopeAllows(q.user[1].scope, PlaceOrders)
         THEN Respond(q, "requireScope", 403, "Insufficient scope")
         ELSE Pass(q, "requireScope", "handler")]
    /\ UNCHANGED <<call, variant, management, now, userMetadata, table>>

\* ------------------------------------------------------------ order stores
\* The verified payload the handler reads: req.auth under express-jwt's
\* requestProperty, req.user elsewhere
Principal(q) == IF variant = "https" THEN q.auth[1] ELSE q.user[1]

\* The value a property shorthand copies: <<>> when the field is undefined
Value(v) == IF v = Undefined THEN Undefined ELSE v[1]

\* The order object of the user_metadata variants, built at clock reading t
ProfileOrder(body, userId, t) ==
    [id |-> DateNowString(t), pizza |-> Value(body.pizza),
     size |-> Value(body.size), total |-> Value(body.total),
     date |-> IF FalsyStr(body.date) THEN ToISOString(t) ELSE body.date[1],
     userId |-> userId]

\* An item filed under the user id of the body when the body names one
TableItemOfBody(body, user, t) ==
    [user_id |-> IF FalsyStr(body.userId) THEN user.sub ELSE body.userId[1],
     order_id |-> "order_" \o DateNowString(t),
     pizza |-> Value(body.pizza), size |-> Value(body.size),
     total |-> Value(body.total),
     created_at |-> IF FalsyStr(body.date) THEN ToISOString(t) ELSE body.date[1],
     user_email |-> user.email, status |-> "confirmed"]

\* An item filed under the email address
TableItemByEmail(body, user, t) ==
    [user_id |-> user.email, order_id |-> "order_" \o DateNowString(t),
     pizza |-> Value(body.pizza), size |-> Value(body.size),
     total |-> Value(body.total),
     created_at |-> IF FalsyStr(body.date) THEN ToISOString(t) ELSE body.date[1],
     user_email |-> user.email, status |-> "confirmed"]

\* The item of the DynamoDB variant, built at clock reading t
TableItem(body, user, t) ==
    [user_id |-> user.sub, order_id |-> "order_" \o DateNowString(t),
     pizza |-> Value(body.pizza), size |-> Value(body.size),
     total |-> Value(body.total),
     created_at |-> IF FalsyStr(body.date) THEN ToISOString(t) ELSE body.date[1],
     user_email |-> user.email, status |-> "confirmed"]

\* The order echoed in the response
ResponseOrder(o) ==
    IF variant = "dynamodb"
    THEN [id |-> o.order_id, pizza |-> o.pizza, size |-> o.size,
          total |-> o.total, date |-> o.created_at, userId |-> o.user_id]
    ELSE o

\* res.json({success: true, order, verification, warnings})
Success(q) ==
    [q EXCEPT !.pc = "done", !.status = 200,
              !.resp = Some(
                 [order |-> ResponseOrder(q.order[1]),
                  verification |->
                     IF variant \in {"profile", "dynamodb"}
                     THEN Some([id_token_verified |->
                                   q.idTokenVerification[1].verified,
                                email_verified |->
                                   ~FalsyBool(q.idTokenVerification[1].emailVerified),
                                token_type |-> q.tokenType,
                                verified_at |-> q.idTokenVerification[1].verifiedAt])
                     ELSE Undefined,
                  warnings |->
                     IF variant \in {"profile", "dynamodb"}
                        /\ Len(q.verificationWarnings) > 0
                     THEN Some(q.verificationWarnings) ELSE Undefined])]

\* The 500 of the handler's catch block
Failure(q, message) ==
    [q EXCEPT !.pc = "done", !.status = 500,
              !.error = IF q.method = "POST" THEN "Failed to place order"
                        ELSE "Failed to fetch orders",
              !.details = IF variant = "dynamodb" THEN Some(message)
                          ELSE Undefined]

\* PutCommand: the item replaces the row with the same (user_id, order_id)
Put(t, item) ==
    { i \in t : ~(i.user_id = item.user_id /\ i.order_id = item.order_id) }
      \cup {item}

\* A body check that lets a body without a total through
MissingPizzaOrSize(body) == FalsyStr(body.pizza) \/ FalsyStr(body.size)

\* !pizza || !size || !total
MissingOrderInformation(body) ==
    FalsyStr(body.pizza) \/ FalsyStr(body.size) \/ FalsyNum(body.total)

\* The route handler of POST /api/orders up to its first await: the body
\* check and the order object with its Date.now() identifier
PostOrders(r) ==
    LET q == reqs[r]
        q1 == [q EXCEPT !.ran = Append(@, "handler")]
        user == Principal(q)
        order == IF variant = "dynamodb" THEN TableItem(q.body, user, now)
                 ELSE ProfileOrder(q.body, user.sub, now)
        q2 == [q1 EXCEPT !.order = Some(order)]
    IN
    /\ q.pc = "handler"
    /\ q.method = "POST"
    /\ reqs' = [reqs EXCEPT ![r] =
         IF MissingOrderInformation(q.body)
         THEN Respond(q, "handler", 400, "Missing required order information")
         ELSE IF variant = "dynamodb" THEN [q2 EXCEPT !.pc = "awaitPut"]
         ELSE IF management THEN [q2 EXCEPT !.pc = "awaitGetUser"]
         ELSE Success(q2)]
    /\ UNCHANGED <<call, variant, management, now, userMetadata, table>>

\* management.getUser settles: user.user_metadata?.orders || []
GetUserDone(r) ==
    LET q == reqs[r] IN
    /\ q.pc = "awaitGetUser"
    /\ \E ok \in BOOLEAN :
         reqs' = [reqs EXCEPT ![r] =
            IF ok THEN [q EXCEPT !.pc = "awaitUpdateUser",
                                 !.snapshot = Some(userMetadata[Principal(q).sub])]
            ELSE IF variant = "https" THEN Success(q)
            ELSE Failure(q, "getUser failed")]
    /\ UNCHANGED <<call, variant, management, now, userMetadata, table>>

\* An updateUser that appends to the list as stored when it settles
UpdateUserDoneAtomic(r) ==
    LET q == reqs[r] IN
    /\ q.pc = "awaitUpdateUser"
    /\ \E ok \in BOOLEAN :
         /\ reqs' = [reqs EXCEPT ![r] =
               IF ok \/ variant = "https" THEN Success(q)
               ELSE Failure(q, "updateUser failed")]
         /\ userMetadata' =
               IF ok THEN [userMetadata EXCEPT ![Principal(q).sub] =
                              Append(@, q.order[1])]
               ELSE userMetadata
    /\ UNCHANGED <<call, variant, management, now, table>>

\* management.updateUser settles: the list read before, with the new order
\* appended, replaces user_metadata.orders
UpdateUserDone(r) ==
    LET q == reqs[r] IN
    /\ q.pc = "awaitUpdateUser"
    /\ \E ok \in BOOLEAN :
         /\ reqs' = [reqs EXCEPT ![r] =
               IF ok \/ variant = "https" THEN Success(q)
               ELSE Failure(q, "updateUser failed")]
         /\ userMetadata' =
               IF ok THEN [userMetadata EXCEPT ![Principal(q).sub] =
                              Append(q.snapshot[1], q.order[1])]
               ELSE userMetadata
    /\ UNCHANGED <<call, variant, management, now, table>>

\* docClient.send(putCommand) settles
PutDone(r) ==
    LET q == reqs[r] IN
    /\ q.pc = "awaitPut"
    /\ \E ok \in BOOLEAN :
         /\ reqs' = [reqs EXCEPT ![r] =
               IF ok THEN Success(q)
               ELSE Failure(q, "ResourceNotFoundException")]
         /\ table' = IF ok THEN Put(table, q.order[1]) ELSE table
    /\ UNCHANGED <<call, variant, management, now, userMetadata>>

\* ---------------------------------------------------------- profile helpers
\* The members a `{}` inherits from Object.prototype
ObjectPrototype ==
    {"constructor", "toString", "toLocaleString", "valueOf", "hasOwnProperty",
     "isPrototypeOf", "propertyIsEnumerable", "__proto__"}

\* One turn of arr.forEach in getMostFrequent. st.frequency holds the numeric
\* counts. An item that names an inherited member is not counted:
\* frequency[item] is that member, (member || 0) + 1 is a string, and
\* string > maxCount is false.
ScanItem(st, item) ==
    IF item = "" \/ item \in ObjectPrototype THEN st
    ELSE LET n == (IF item \in DOMAIN st.frequency THEN st.frequency[item]
                   ELSE 0) + 1
             f == (item :> n) @@ st.frequency
         IN  IF n > st.maxCount
             THEN [frequency |-> f, maxCount |-> n, mostFrequent |-> Some(item)]
             ELSE [st EXCEPT !.frequency = f]

RECURSIVE Scan(_, _)
Scan(st, arr) ==
    IF arr = <<>> THEN st ELSE Scan(ScanItem(st, Head(arr)), Tail(arr))

\* getMostFrequent(arr): <<>> is null
getMostFrequent(arr) ==
    IF Len(arr) = 0 THEN Undefined
    ELSE Scan([frequency |-> <<>>, maxCount |-> 0, mostFrequent |-> Undefined],
              arr).mostFrequent

\* Math.floor(num / den)
Truncate(num, den) == num \div den

\* Math.round(num / den) for den > 0: the nearest integer, halves upwards
Round(num, den) == (2 * num + den) \div (2 * den)

\* orders.reduce((sum, order) => sum + (order.total || 0), 0); amounts are
\* in cents
RECURSIVE SumTotals(_)
SumTotals(orders) ==
    IF orders = <<>> THEN 0 ELSE Head(orders).total + SumTotals(Tail(orders))

\* The fields of a customer profile that the builders compute from the
\* orders (customer_since, order_frequency_per_day and the generation stamp
\* are left out); <<>> is a field that is not set, or null
MkProfile(n, spent, avg, size, pizza, first, last, error) ==
    [total_orders |-> n, total_spent |-> spent, average_order_value |-> avg,
     favorite_size |-> size, favorite_pizza |-> pizza,
     first_order |-> first, last_order |-> last, error |-> error]

\* The builder body shared by the backend and the DynamoDB hook, over the
\* totals, sizes, pizzas and dates of the orders in the order they are given:
\* Date.prototype.toISOString throws a RangeError on a date that did not parse
RangeError == "RangeError: Invalid time value"
BuildProfile(orders, dates) ==
    LET n == Len(orders)
        spent == SumTotals(orders)
    IN  IF ~ValidDate(dates[n]) \/ ~ValidDate(dates[1])
        THEN MkProfile(n, 0, Undefined, Undefined, Undefined, Undefined,
                       Undefined, Some(RangeError))
        ELSE MkProfile(n, Round(spent, 1), Some(Round(spent, n)),
                       getMostFrequent([k \in 1..n |-> orders[k].size]),
                       getMostFrequent([k \in 1..n |-> orders[k].pizza]),
                       Some(dates[n]), Some(dates[1]), Undefined)

\* generateCustomerProfileFromOrders of the backend: first_order is the date
\* of the last order of the list, last_order that of the first; the catch
\* block answers a throw with total_spent 0 and an error field
generateCustomerProfileFromOrders(orders) ==
    IF Len(orders) = 0
    THEN MkProfile(0, 0, Undefined, Undefined, Undefined, Undefined, Undefined,
                   Undefined)
    ELSE LET b == BuildProfile(orders, [k \in 1..Len(orders) |-> orders[k].date])
         IN  IF b.error = Undefined THEN b
             ELSE [b EXCEPT !.error = Some("Profile generation failed")]

\* generateCustomerProfile of the DynamoDB hook, over table items: it has no
\* catch block, so the profile with the RangeError stands for the throw
generateCustomerProfile(orders) ==
    IF Len(orders) = 0
    THEN MkProfile(0, 0, Undefined, Undefined, Undefined, Undefined, Undefined,
                   Undefined)
    ELSE BuildProfile(orders, [k \in 1..Len(orders) |-> orders[k].created_at])

\* ------------------------------------------------------- GET /api/orders
\* The characters of the sort keys, in the order of their UTF-8 bytes
Utf8Order == "0123456789_deor"
CharCode(c) == CHOOSE i \in 1..Len(Utf8Order) : SubSeq(Utf8Order, i, i) = c
\* a sorts before b as a DynamoDB string sort key
StrLess(a, b) ==
    \E i \in 1..Len(b) :
       /\ i <= Len(a) + 1
       /\ SubSeq(a, 1, i - 1) = SubSeq(b, 1, i - 1)
       /\ \/ i = Len(a) + 1
          \/ CharCode(SubSeq(a, i, i)) < CharCode(SubSeq(b, i, i))

\* The rows of S from the greatest sort key to the least
RECURSIVE Descending(_)
Descending(S) ==
    IF S = {} THEN <<>>
    ELSE LET m == CHOOSE x \in S :
                    \A y \in S \ {x} : StrLess(y.order_id, x.order_id)
         IN  <<m>> \o Descending(S \ {m})

\* The rows of S from the least sort key to the greatest
RECURSIVE Ascending(_)
Ascending(S) ==
    IF S = {} THEN <<>>
    ELSE LET m == CHOOSE x \in S :
                    \A y \in S \ {x} : StrLess(x.order_id, y.order_id)
         IN  <<m>> \o Ascending(S \ {m})

\* A query with ScanIndexForward: true
QueryForward(t, userId) == Ascending({ i \in t : i.user_id = userId })

\* QueryCommand with KeyConditionExpression 'user_id = :userId' and
\* ScanIndexForward: false
Query(t, userId) == Descending({ i \in t : i.user_id = userId })

\* The QueryCommand of the post-login hook: no ScanIndexForward, so the
\* rows come in ascending order of the sort key
HookQuery(t, userId) == Ascending({ i \in t : i.user_id = userId })

\* orders.map(item => ({id: item.order_id, ...}))
FormattedOrders(items) ==
    [ k \in 1..Len(items) |->
        [id |-> items[k].order_id, pizza |-> items[k].pizza,
         size |-> items[k].size, total |-> items[k].total,
         date |-> items[k].created_at, userId |-> items[k].user_id] ]

\* res.json({orders, customer_profile, verification, warnings})
ListSuccess(q, orders) ==
    [q EXCEPT !.pc = "done", !.status = 200,
              !.resp = Some(
                 [orders |-> orders,
                  customer_profile |->
                     IF variant = "dynamodb"
                     THEN Some(generateCustomerProfileFromOrders(orders))
                     ELSE Undefined,
                  verification |->
                     IF variant \in {"profile", "dynamodb"}
                     THEN Some([id_token_verified |->
                                   q.idTokenVerification[1].verified,
                                email_verified |->
                                   ~FalsyBool(q.idTokenVerification[1].emailVerified),
                                token_type |-> q.tokenType,
                                verified_at |-> q.idTokenVerification[1].verifiedAt])
                     ELSE Undefined,
                  warnings |->
                     IF variant \in {"profile", "dynamodb"}
                     THEN Some(q.verificationWarnings) ELSE Undefined])]

\* The route handler of GET /api/orders up to its await
GetOrders(r) ==
    LET q == reqs[r]
        q1 == [q EXCEPT !.ran = Append(@, "handler")]
    IN
    /\ q.pc = "handler"
    /\ q.method = "GET"
    /\ reqs' = [reqs EXCEPT ![r] =
         IF variant = "dynamodb" THEN [q1 EXCEPT !.pc = "awaitQuery"]
         ELSE IF management THEN [q1 EXCEPT !.pc = "awaitOrders"]
         ELSE ListSuccess(q1, <<>>)]
    /\ UNCHANGED <<call, variant, management, now, userMetadata, table>>

\* docClient.send(queryCommand) settles
QueryDone(r) ==
    LET q == reqs[r] IN
    /\ q.pc = "awaitQuery"
    /\ \E ok \in BOOLEAN :
         reqs' = [reqs EXCEPT ![r] =
            IF ok THEN ListSuccess(q, FormattedOrders(Query(table, q.user[1].sub)))
            ELSE Failure(q, "ResourceNotFoundException")]
    /\ UNCHANGED <<call, variant, management, now, userMetadata, table>>

\* management.getUser of the GET handler settles
OrdersDone(r) ==
    LET q == reqs[r] IN
    /\ q.pc = "awaitOrders"
    /\ \E ok \in BOOLEAN :
         reqs' = [reqs EXCEPT ![r] =
            IF ok THEN ListSuccess(q, userMetadata[Principal(q).sub])
            ELSE IF variant = "https" THEN ListSuccess(q, <<>>)
            ELSE Failure(q, "getUser failed")]
    /\ UNCHANGED <<call, variant, management, now, userMetadata, table>>

\* ---------------------------------------------------------- specifications
\* One request at a time, with every token and body of the input sets
Requests ==
    (VerifyTokens \X {b \in Bodies : b.date = Undefined /\ b.size # Undefined
                                     /\ b.total # Some(0)})
      \cup (TrustTokens \X {b \in Bodies : b.pizza # Undefined
                                           /\ b.size # Undefined
                                           /\ b.total # Some(0)})
      \cup (ScopeTokens \X Bodies)
      \cup ({t \in ScopeTokens : t.claims.scope = Some(PlaceOrders)}
              \X {NegativeBody})

\* The tokens GET /api/orders is sent with
ListTokens ==
    { t \in TrustTokens : t.claims.scope = Undefined }
      \cup { AbsentToken,
             MkToken("jwt", "RS256", "known", "invalid", Issuer,
                     AudStr(AUTH0_AUDIENCE), FALSE, PassClaims("auth0|u1")) }

\* Concurrent requests of the users, all of which pass the gates (the first
\* request is the first user's)
UserRequests(r) ==
    {t \in UserTokens : r = 1 => t.claims.sub = "auth0|u1"} \X {FullBody(r)}

\* Requests that follow an answered one and are turned away by the gated
\* variants: no Authorization header, a user who has not verified the email
\* address, a body without a total
RejectedRequests(tok) ==
    {<<AbsentToken, MkBody(Some("Margherita"), Some("medium"), Some(16), Undefined)>>,
     <<MkToken("jwt", "RS256", "known", "valid", Issuer, AudStr(AUTH0_AUDIENCE),
               FALSE, BareClaims("auth0|u1")),
       MkBody(Some("Margherita"), Some("medium"), Some(16), Undefined)>>,
     <<tok, MkBody(Some("Margherita"), Some("medium"), Undefined, Undefined)>>}

Step(r) ==
    \/ VerifyTokenBegin(r)
    \/ VerifyTokenEnd(r)
    \/ CheckJwt(r)
    \/ VerifyIdTokenClaims(r)
    \/ RequireEmailVerification(r)
    \/ RequireScope(r)
    \/ PostOrders(r)
    \/ GetUserDone(r)
    \/ UpdateUserDone(r)
    \/ PutDone(r)
    \/ GetOrders(r)
    \/ QueryDone(r)
    \/ OrdersDone(r)

Next ==
    \/ Tick
    \/ reqs[1].pc = "idle" /\ \E x \in Requests : Arrive(1, x[1], x[2])
    \/ reqs[1].pc = "idle" /\ \E tok \in ListTokens : ArriveGet(1, tok)
    \/ Step(1)

Spec == Init /\ [][Next]_vars

\* Every await of a request settles and every next() is followed
SpecLive == Spec /\ WF_vars(Step(1))

\* (request r is the r-th to arrive; the first client lists its orders, or
\* sends one more order when every request was answered, when it has its
\* answer and no request is in flight)
NextConc ==
    \/ Tick
    \/ \E r \in Reqs : reqs[r].pc = "idle"
                         /\ (\A p \in 1..(r - 1) : reqs[p].pc # "idle")
                         /\ \E x \in UserRequests(r) : Arrive(r, x[1], x[2])
    \/ /\ reqs[1].pc = "done"
       /\ reqs[1].body = FullBody(1)
       /\ (\A p \in Reqs : reqs[p].pc \in {"idle", "done"})
       /\ ArriveGet(1, reqs[1].token)
    \/ /\ (\A p \in Reqs : reqs[p].pc = "done")
       /\ \E x \in RejectedRequests(reqs[1].token) : ArriveAgain(1, x[1], x[2])
    \/ \E r \in Reqs : Step(r)

SpecConc == Init /\ [][NextConc]_vars

\* -------------------------------------------------------- post-login hooks
\* The statements of each hook's try block in program order: the order query
\* and the profile builder of the DynamoDB hook, and every setCustomClaim
\* (named by the claim it sets)
HookBody(hook) ==
    IF hook = "dynamodb"
    THEN <<"docClient.send", "generateCustomerProfile", "email_verified",
           "can_place_orders", "token_verified_at", "verification_version",
           "customer_profile", "auth_metadata", "session_security">>
    ELSE <<"email_verified", "can_place_orders", "session_security",
           "auth_metadata", "customer_info", "token_verified_at",
           "verification_version">>

\* The claims each hook's catch block sets
HookCatch(hook) ==
    IF hook = "dynamodb"
    THEN {"email_verified", "can_place_orders", "token_verified_at",
          "verification_version", "auth_warnings", "customer_profile"}
    ELSE {"action_error"}

\* The events of a login: the hook that is deployed, the user's
\* email_verified, and the statement of the try block that throws (0: none)
HookEvents ==
    UNION { [hook : {h}, email_verified : BOOLEAN, throwsAt : 0..Len(HookBody(h))] :
              h \in {"dynamodb", "verification"} }

\* onExecutePostLogin: the statements before the throw, then the catch
\* block; no exception leaves the function and api.access.deny is not called
onExecutePostLogin(event) ==
    LET body == HookBody(event.hook)
        ran == IF event.throwsAt = 0 THEN Len(body) ELSE event.throwsAt - 1
        set == ({ body[k] : k \in 1..ran }
                  \ {"docClient.send", "generateCustomerProfile"})
               \cup (IF event.throwsAt = 0 THEN {} ELSE HookCatch(event.hook))
    IN  [loginFailed |-> FALSE, claims |-> set]

\* The payload of the ID token issued after the hook ran
IdTokenPayload(event, claims) ==
    [sub |-> "auth0|u1", email |-> EmailOf("auth0|u1"),
     email_verified |-> Some(event.email_verified),
     scope |-> Undefined,
     token_verified_at |-> IF "token_verified_at" \in claims
                           THEN Some(VerifiedAtNow) ELSE Undefined,
     ns_email_verified |-> IF "email_verified" \in claims
                           THEN Some(event.email_verified) ELSE Undefined,
     ns_can_place_orders |-> IF "can_place_orders" \in claims
                             THEN Some(event.email_verified) ELSE Undefined]

\* The order limit of the Add-Order-History hook
HistoryLimit == 10

\* A slice that keeps the front of the array
sliceFront(arr, start) ==
    SubSeq(arr, 1, IF Len(arr) < 0 - start THEN Len(arr) ELSE 0 - start)

\* arr.slice(start) for start < 0: the elements from index
\* max(arr.length + start, 0) to the end
slice(arr, start) ==
    SubSeq(arr, (IF Len(arr) + start < 0 THEN 0 ELSE Len(arr) + start) + 1,
           Len(arr))

\* onExecutePostLogin of the Add-Order-History hook for the orders of
\* event.user.user_metadata; with throws, the statement after the
\* order_history claim was set throws; no exception leaves the function
AddOrderHistory(orders, throws) ==
    LET recentOrders == slice(orders, 0 - HistoryLimit) IN
    IF Len(recentOrders) > 0
    THEN [loginFailed |-> FALSE,
          order_history |-> Some(recentOrders),
          customer_profile |->
             IF throws THEN Undefined
             ELSE Some([total_orders |-> Len(recentOrders),
                        total_spent |-> SumTotals(recentOrders),
                        favorite_size |-> getMostFrequent(
                           [k \in 1..Len(recentOrders) |-> recentOrders[k].size]),
                        favorite_pizza |-> getMostFrequent(
                           [k \in 1..Len(recentOrders) |-> recentOrders[k].pizza])])]
    ELSE [loginFailed |-> FALSE, order_history |-> Undefined,
          customer_profile |-> Undefined]

\* ------------------------------------------------------ helper call specs
\* The pizza names of stored orders: any non-empty string of a request body
MaxLen == 4
PizzaNames == {"Margherita", "Pepperoni", "constructor"}
PizzaLists == UNION { [1..n -> PizzaNames] : n \in 0..MaxLen }

\* The orders a profile is built from: formatted orders whose total, pizza
\* and date are what some request body had
MaxOrders == 3
ProfileOrders ==
    { [id |-> "order", pizza |-> p, size |-> "medium", total |-> t, date |-> d,
       userId |-> "auth0|u1"] :
        p \in {"Margherita", "Pepperoni"}, t \in {1000, 2000, 3000},
        d \in {ToISOString(0), InvalidDate} }
OrderLists == UNION { [1..n -> ProfileOrders] : n \in 0..MaxOrders }
\* The order lists of user_metadata the Add-Order-History hook is run on:
\* longer than its limit, of two kinds of orders
MaxHistory == 11
HistoryLists ==
    UNION { [1..n -> { o \in ProfileOrders :
                         o.total = 1000 /\ o.date = ToISOString(0) }] :
              n \in 0..MaxHistory }
\* The table item a formatted order was made from
ItemOf(o) ==
    [user_id |-> o.userId, order_id |-> o.id, pizza |-> o.pizza,
     size |-> o.size, total |-> o.total, created_at |-> o.date,
     user_email |-> EmailOf(o.userId), status |-> "confirmed"]

MkCall(fn, arr) ==
    [fn |-> fn, arr |-> arr, returned |-> FALSE, value |-> Undefined]

InitProfile ==
    /\ variant = "dynamodb"
    /\ management = TRUE
    /\ now = 0
    /\ reqs = [r \in Reqs |-> IdleReq]
    /\ userMetadata = [u \in Users |-> <<>>]
    /\ table = {}
    /\ call \in { MkCall("getMostFrequent", a) : a \in PizzaLists }
              \cup { MkCall(fn, a) :
                       fn \in {"generateCustomerProfileFromOrders",
                               "generateCustomerProfile"},
                       a \in OrderLists }
              \cup { MkCall("onExecutePostLogin", <<e>>) : e \in HookEvents }
              \cup { MkCall(fn, a) :
                       fn \in {"AddOrderHistory", "AddOrderHistory throws"},
                       a \in HistoryLists }

CallGetMostFrequent ==
    /\ call.fn = "getMostFrequent"
    /\ ~call.returned
    /\ call' = [call EXCEPT !.returned = TRUE,
                            !.value = getMostFrequent(call.arr)]
    /\ UNCHANGED <<variant, management, now, reqs, userMetadata, table>>

CallGenerateCustomerProfileFromOrders ==
    /\ call.fn = "generateCustomerProfileFromOrders"
    /\ ~call.returned
    /\ call' = [call EXCEPT
                  !.returned = TRUE,
                  !.value = generateCustomerProfileFromOrders(call.arr)]
    /\ UNCHANGED <<variant, management, now, reqs, userMetadata, table>>

CallGenerateCustomerProfile ==
    /\ call.fn = "generateCustomerProfile"
    /\ ~call.returned
    /\ call' = [call EXCEPT
                  !.returned = TRUE,
                  !.value = generateCustomerProfile(
                               [k \in 1..Len(call.arr) |-> ItemOf(call.arr[k])])]
    /\ UNCHANGED <<variant, management, now, reqs, userMetadata, table>>

CallOnExecutePostLogin ==
    /\ call.fn = "onExecutePostLogin"
    /\ ~call.returned
    /\ call' = [call EXCEPT !.returned = TRUE,
                            !.value = onExecutePostLogin(call.arr[1])]
    /\ UNCHANGED <<variant, management, now, reqs, userMetadata, table>>

CallAddOrderHistory ==
    /\ call.fn \in {"AddOrderHistory", "AddOrderHistory throws"}
    /\ ~call.returned
    /\ call' = [call EXCEPT
                  !.returned = TRUE,
                  !.value = AddOrderHistory(call.arr,
                                            call.fn = "AddOrderHistory throws")]
    /\ UNCHANGED <<variant, management, now, reqs, userMetadata, table>>

NextProfile ==
    \/ CallGetMostFrequent
    \/ CallGenerateCustomerProfileFromOrders
    \/ CallGenerateCustomerProfile
    \/ CallOnExecutePostLogin
    \/ CallAddOrderHistory

SpecProfile == InitProfile /\ [][NextProfile]_vars

\* ================================================================= claims
\* What the claims say of a request, in the terms of the request alone
Verified(q) == q.user # Undefined \/ q.auth # Undefined
PastVerifyToken(q) == q.pc \notin {"idle", "verifyToken", "awaitKey"}
ReachedHandler(q) == "handler" \in Range(q.ran) \/ q.pc = "handler"
CompleteBody(b) ==
    /\ b.pizza # Undefined /\ b.pizza[1] # ""
    /\ b.size # Undefined /\ b.size[1] # ""
    /\ b.total # Undefined /\ b.total[1] # 0
\* The space-delimited permission names listed by a scope string (RFC 6749 3.3)
ScopeList(s) ==
    LET Sep(i) == i = 0 \/ i = Len(s) + 1 \/ SubSeq(s, i, i) = " "
    IN  { SubSeq(s, i + 1, j - 1) :
            <<i, j>> \in { p \in (0..Len(s)) \X (1..(Len(s) + 1)) :
                             /\ p[1] < p[2] - 1
                             /\ Sep(p[1]) /\ Sep(p[2])
                             /\ \A k \in (p[1] + 1)..(p[2] - 1) : ~Sep(k) } }

\* A defect of the token or of the key fetch that verification must catch
VerificationFails(q) ==
    \/ q.token.raw # "jwt"
    \/ q.token.alg # "RS256"
    \/ q.token.sig # "valid"
    \/ q.token.iss # Issuer
    \/ q.token.expired
    \/ Range(q.token.aud.v) \cap {AUTH0_AUDIENCE, AUTH0_CLIENT_ID} = {}
    \/ q.jwks = "rejected"

\* C1: verifyToken answers 401 itself and stops the chain for every
\* verification failure (no token, undecodable token, bad signature, wrong
\* issuer, wrong audience, expired token, failed key fetch), whatever the
\* claims; nothing but that response comes out of the middleware.
C1_VerifyTokenRejects ==
    variant \in {"profile", "dynamodb", "simple"} =>
      \A r \in Reqs :
        LET q == reqs[r] IN
        (PastVerifyToken(q) /\ VerificationFails(q)) =>
           /\ q.pc = "done"
           /\ q.status = 401
           /\ q.ran = <<"verifyToken">>
           /\ q.user = Undefined
           /\ q.order = Undefined

C1_Witness ==
    /\ variant = "dynamodb"
    /\ \E r \in Reqs :
         /\ reqs[r].token = MkToken("jwt", "RS256", "known", "invalid", Issuer,
                                    AudStr(AUTH0_AUDIENCE), FALSE,
                                    PassClaims("auth0|u1"))
         /\ reqs[r].jwks = "resolved"
         /\ reqs[r].status = 401

\* C2: on POST /api/orders a verified token whose trust result has the
\* email-verified flag or the order-eligibility flag false is answered 403
\* by requireEmailVerification and never reaches the order handler.
C2_UnverifiedEmailForbidden ==
    \A r \in Reqs :
      LET q == reqs[r] IN
      (/\ q.idTokenVerification # Undefined
       /\ q.pc # "requireEmailVerification"
       /\ \/ FalsyBool(q.idTokenVerification[1].emailVerified)
          \/ FalsyBool(q.idTokenVerification[1].canPlaceOrders)) =>
         /\ q.pc = "done"
         /\ q.status = 403
         /\ q.error \in {"Email verification required", "Order access restricted"}
         /\ q.ran = <<"verifyToken", "verifyIdTokenClaims",
                      "requireEmailVerification">>
         /\ q.order = Undefined

C2_Witness ==
    \E r \in Reqs :
      /\ reqs[r].idTokenVerification # Undefined
      /\ reqs[r].idTokenVerification[1].emailVerified = Some(TRUE)
      /\ reqs[r].idTokenVerification[1].canPlaceOrders = Some(FALSE)
      /\ reqs[r].user[1].scope = Some(PlaceOrders)
      /\ CompleteBody(reqs[r].body)
      /\ reqs[r].status = 403

\* C3: a verified identity-token (audience = client id) without a scope
\* claim, of a user with verified email, sent with a complete body, is not
\* answered 403 by requireScope('place:orders').
C3_ScopeGateBypassedForIdToken ==
    \A r \in Reqs :
      LET q == reqs[r] IN
      (/\ variant \in {"profile", "dynamodb"}
       /\ q.method = "POST"
       /\ q.pc = "done"
       /\ q.tokenType = Some("id_token")
       /\ q.user[1].scope = Undefined
       /\ EmailGate(q.idTokenVerification) = ""
       /\ CompleteBody(q.body)) =>
         ~(q.status = 403 /\ q.error = "Insufficient scope")

\* C4: requireScope(p) lets a request through only if p is one of the
\* permissions of the token's scope list.
C4_ScopeIsListedPermission ==
    \A r \in Reqs :
      LET q == reqs[r] IN
      (/\ variant \in {"profile", "dynamodb", "simple"}
       /\ q.method = "POST"
       /\ ReachedHandler(q)) =>
         /\ q.user[1].scope # Undefined
         /\ PlaceOrders \in ScopeList(q.user[1].scope[1])

\* C5: a token is passed on to the next middleware only if its algorithm
\* is RS256, its issuer is the configured one and its audience is the API
\* identifier or the client id.
C5_AcceptedTokenChecked ==
    \A r \in Reqs :
      LET q == reqs[r] IN
      Verified(q) =>
         /\ q.token.raw = "jwt"
         /\ q.token.alg = "RS256"
         /\ q.token.iss = Issuer
         /\ Range(q.token.aud.v) \cap {AUTH0_AUDIENCE, AUTH0_CLIENT_ID} # {}
         /\ q.status # 401

C5_Witness ==
    \E r \in Reqs :
      /\ reqs[r].user # Undefined
      /\ reqs[r].token.aud = AudStr(AUTH0_CLIENT_ID)
      /\ reqs[r].pc = "verifyIdTokenClaims"

\* C6: after successful verification the token type is 'access_token'
\* exactly when the audience equals, or as a list contains, the API
\* identifier, and 'id_token' otherwise.
C6_TokenTypeByAudience ==
    variant \in {"profile", "dynamodb"} =>
      \A r \in Reqs :
        LET q == reqs[r] IN
        q.user # Undefined =>
           /\ q.tokenType \in {Some("access_token"), Some("id_token")}
           /\ q.tokenType = Some("access_token")
                <=> AUTH0_AUDIENCE \in Range(q.user[1].aud.v)
           /\ q.user[1].aud = AudStr(AUTH0_CLIENT_ID)
                => q.tokenType = Some("id_token")

C6_Witness ==
    \E r \in Reqs :
      /\ reqs[r].user # Undefined
      /\ reqs[r].user[1].aud.array
      /\ reqs[r].tokenType = Some("access_token")

\* The requests answered with success, and the orders they were answered with
Succeeded(q) == q.pc = "done" /\ q.status = 200 /\ q.method = "POST"
SameUser(q1, q2) ==
    /\ Verified(q1) /\ Verified(q2)
    /\ Principal(q1).sub = Principal(q2).sub

\* C7: under the profile-embedded strategy two requests of one user that
\* both read the same stored list never both end up in the stored list,
\* whatever they are answered: the later write replaces the earlier one.
\* The witness is the interleaving in which both are answered with success
\* and the list holds one of the two new orders.
C7_LostUpdate ==
    variant \in {"profile", "simple", "https"} =>
      \A r1, r2 \in Reqs :
        LET q1 == reqs[r1]
            q2 == reqs[r2]
        IN
        (/\ r1 # r2
         /\ SameUser(q1, q2)
         /\ q1.snapshot # Undefined
         /\ q2.snapshot # Undefined
         /\ q1.snapshot = q2.snapshot) =>
           LET stored == Range(userMetadata[Principal(q1).sub]) IN
           ~(q1.order[1] \in stored /\ q2.order[1] \in stored)

C7_Witness ==
    /\ variant = "profile"
    /\ \E r1, r2 \in Reqs :
         /\ r1 # r2
         /\ SameUser(reqs[r1], reqs[r2])
         /\ Succeeded(reqs[r1]) /\ Succeeded(reqs[r2])
         /\ reqs[r1].order # reqs[r2].order
         /\ userMetadata[reqs[r1].user[1].sub] = <<reqs[r2].order[1]>>

\* C8: under the table strategy no placement is lost: the order of every
\* request answered with success is a row of the user's partition (stated
\* of the placements, before any client lists its orders).
C8_NoPlacementLost ==
    (variant = "dynamodb" /\ \A r \in Reqs : reqs[r].method = "POST") =>
      /\ \A r \in Reqs : Succeeded(reqs[r]) => reqs[r].order[1] \in table
      /\ \A u \in Users :
           Cardinality({i \in table : i.user_id = u})
             = Cardinality({r \in Reqs : /\ Succeeded(reqs[r])
                                         /\ reqs[r].user[1].sub = u})

\* C9: orders are immutable once created: an order that is in the store
\* is in the store, unchanged, in every later state.
C9_OrdersImmutable ==
    [][/\ \A u \in Users :
            Range(userMetadata[u]) \subseteq Range(userMetadata'[u])
       /\ table \subseteq table']_vars

\* C10: within one user's stored orders no two orders share an identifier.
C10_UniqueOrderIds ==
    /\ \A u \in Users :
         \A i, j \in 1..Len(userMetadata[u]) :
           i # j => userMetadata[u][i].id # userMetadata[u][j].id
    /\ \A a, b \in table :
         (a.user_id = b.user_id /\ a.order_id = b.order_id) => a = b

\* The requests answered with a list of orders
Listed(q) == q.pc = "done" /\ q.status = 200 /\ q.method = "GET"
\* The clock reading an order identifier of the table was generated at
ClockOf(id) == CHOOSE t \in 0..MaxClock : id = "order_" \o DateNowString(t)

\* C11: under the table strategy the list GET /api/orders answers with is
\* the caller's partition of the table as it is when the query settles, in
\* descending order of order identifier, so that an order placed at a later
\* clock reading comes before one placed at an earlier reading.
C11_NewestFirst ==
    [][\A r \in Reqs :
         LET q == reqs[r]
             p == reqs'[r]
         IN
         (variant = "dynamodb" /\ q.pc = "awaitQuery" /\ p.status = 200) =>
           LET l == p.resp[1].orders
               mine == { x \in table : x.user_id = q.token.claims.sub }
           IN
           /\ Len(l) = Cardinality(mine)
           /\ { l[i].id : i \in 1..Len(l) } = { x.order_id : x \in mine }
           /\ \A i \in 1..Len(l) : l[i].userId = q.token.claims.sub
           /\ \A i, j \in 1..Len(l) :
                i < j => /\ StrLess(l[j].id, l[i].id)
                         /\ ClockOf(l[i].id) > ClockOf(l[j].id)]_vars

C11_Witness ==
    /\ variant = "dynamodb"
    /\ \E r \in Reqs :
         /\ Listed(reqs[r])
         /\ Len(reqs[r].resp[1].orders) = 2
         /\ reqs[r].resp[1].orders[1].pizza = "Pepperoni"
         /\ reqs[r].resp[1].orders[2].pizza = "Margherita"

StaleWarning == "Token verification is stale"
EmailGateErrors ==
    {"Email verification status unknown", "Email verification required",
     "Order access restricted"}

\* C12: when verifyIdTokenClaims runs on a token whose verified-at claim is
\* more than an hour before the clock reading, it answers nothing and hands
\* the request to the next gate with the warning 'Token verification is
\* stale'; the warning stays with the request, and the success response of
\* the request carries it.
C12_StaleIsAdvisory ==
    [][\A r \in Reqs :
         LET q == reqs[r]
             p == reqs'[r]
         IN
         /\ (/\ q.pc = "verifyIdTokenClaims"
             /\ p.pc # q.pc
             /\ q.user[1].token_verified_at = Some(VerifiedAtHourAgo)
             /\ now > 0) =>
               /\ p.pc = "requireEmailVerification"
               /\ p.status = 0
               /\ StaleWarning \in Range(p.verificationWarnings)
         /\ (/\ StaleWarning \in Range(q.verificationWarnings)
             /\ q.pc # "done") =>
               /\ StaleWarning \in Range(p.verificationWarnings)
               /\ p.status = 200 =>
                    /\ p.resp[1].warnings # Undefined
                    /\ StaleWarning \in Range(p.resp[1].warnings[1])]_vars

C12_Witness ==
    \E r \in Reqs :
      /\ Succeeded(reqs[r])
      /\ variant = "profile"
      /\ reqs[r].token.claims.token_verified_at = Some(VerifiedAtHourAgo)
      /\ reqs[r].resp[1].warnings = Some(<<StaleWarning>>)

\* The requests whose trust result was taken from the raw email_verified
\* claim, no verified-at claim being in the token
UsedFallback(q) ==
    /\ variant \in {"profile", "dynamodb"}
    /\ q.idTokenVerification # Undefined
    /\ q.user[1].token_verified_at = Undefined

\* C13 as stated: a success response of a request that used the fallback
\* claims carries a warning.
C13_FallbackWarned ==
    \A r \in Reqs :
      LET q == reqs[r] IN
      (UsedFallback(q) /\ q.status = 200) =>
         /\ q.resp[1].warnings # Undefined
         /\ q.resp[1].warnings[1] # <<>>

\* C13: a request that used the fallback claims is not blocked for that
\* reason (the email gate lets it through when the raw email_verified claim
\* is true), and its success response tells the fallback by
\* verification.id_token_verified = false; it carries no warning.
C13_FallbackFlagged ==
    \A r \in Reqs :
      LET q == reqs[r] IN
      UsedFallback(q) =>
         /\ q.idTokenVerification[1].verified = FALSE
         /\ q.user[1].email_verified = Some(TRUE) =>
              ~(q.status = 403 /\ q.error \in EmailGateErrors)
         /\ q.status = 200 =>
              /\ q.resp[1].verification[1].id_token_verified = FALSE
              /\ q.resp[1].verification[1].email_verified = TRUE
              /\ q.resp[1].warnings \in {Undefined, Some(<<>>)}

C13_Witness ==
    /\ \E r \in Reqs :
         /\ UsedFallback(reqs[r])
         /\ reqs[r].method = "GET"
         /\ reqs[r].status = 200
         /\ reqs[r].resp[1].warnings = Some(<<>>)

\* C14: a POST /api/orders that passed every gate and whose body lacks the
\* pizza, the size or the total is answered 400 by the handler, and no
\* order is created: none is built and both stores stay as they were.
C14_MissingFieldRejected ==
    \A r \in Reqs :
      LET q == reqs[r] IN
      (/\ q.method = "POST"
       /\ "handler" \in Range(q.ran)
       /\ \/ q.body.pizza = Undefined
          \/ q.body.size = Undefined
          \/ q.body.total = Undefined) =>
         /\ q.pc = "done"
         /\ q.status = 400
         /\ q.error = "Missing required order information"
         /\ q.order = Undefined
         /\ table = {}
         /\ \A u \in Users : userMetadata[u] = <<>>

C14_Witness ==
    \E r \in Reqs :
      /\ reqs[r].body.pizza # Undefined
      /\ reqs[r].body.size # Undefined
      /\ reqs[r].body.total = Undefined
      /\ reqs[r].ran = <<"verifyToken", "verifyIdTokenClaims",
                         "requireEmailVerification", "requireScope", "handler">>
      /\ reqs[r].status = 400

\* C15: every stored order has a total greater than zero (under the gated
\* variants, whose POST handler the claim is about).
C15_StoredTotalsPositive ==
    variant \in {"profile", "dynamodb"} =>
      /\ \A u \in Users :
           \A i \in 1..Len(userMetadata[u]) : userMetadata[u][i].total > 0
      /\ \A i \in table : i.total > 0

\* The order of the request is in the store of the variant
Stored(q) ==
    /\ q.order # Undefined
    /\ IF variant = "dynamodb" THEN q.order[1] \in table
       ELSE q.order[1] \in Range(userMetadata[Principal(q).sub])

\* C16: a POST /api/orders is answered with success only if its order was
\* persisted (a failed read or write of the store ends in 500).
C16_SuccessIsPersisted ==
    \A r \in Reqs : Succeeded(reqs[r]) => Stored(reqs[r])

\* C17: the 500 response of the POST and GET handlers carries the generic
\* message only, never the text of the underlying error.
C17_NoErrorTextIn500 ==
    \A r \in Reqs :
      LET q == reqs[r] IN
      (q.status = 500 /\ "handler" \in Range(q.ran)) =>
         /\ q.error \in {"Failed to place order", "Failed to fetch orders"}
         /\ q.details = Undefined

\* What the token says of the user's email: the namespaced flags the hook
\* sets together when it stamped the token, else the raw claim
SaysVerified(c) ==
    IF c.token_verified_at # Undefined
    THEN c.ns_email_verified = Some(TRUE) /\ c.ns_can_place_orders = Some(TRUE)
    ELSE c.email_verified = Some(TRUE)

\* C18: a POST /api/orders with pizza, size and total, sent with a verified
\* access token (audience the API identifier, place:orders in its scope
\* list) of a user whose email is verified, is let through every gate, and
\* unless the store fails it is answered with success: the response has an
\* order with a generated identifier, the pizza, size and total of the body
\* and the token's subject as user id, and verification.email_verified true.
C18_ValidOrderSucceeds ==
    variant \in {"profile", "dynamodb"} =>
      \A r \in Reqs :
        LET q == reqs[r] IN
        (/\ q.method = "POST"
         /\ q.pc = "done"
         /\ q.user # Undefined
         /\ AUTH0_AUDIENCE \in Range(q.token.aud.v)
         /\ q.token.claims.scope # Undefined
         /\ PlaceOrders \in ScopeList(q.token.claims.scope[1])
         /\ SaysVerified(q.token.claims)
         /\ CompleteBody(q.body)
         /\ q.error # "Failed to place order") =>
           /\ q.status = 200
           /\ q.resp[1].order.id \in {DateNowString(t) : t \in 0..MaxClock}
                 \cup {"order_" \o DateNowString(t) : t \in 0..MaxClock}
           /\ q.resp[1].order.pizza = q.body.pizza[1]
           /\ q.resp[1].order.size = q.body.size[1]
           /\ q.resp[1].order.total = q.body.total[1]
           /\ q.resp[1].order.userId = q.token.claims.sub
           /\ q.resp[1].verification[1].email_verified = TRUE

C18_Witness ==
    /\ variant = "dynamodb"
    /\ \E r \in Reqs :
         /\ Succeeded(reqs[r])
         /\ reqs[r].token.aud = AudStr(AUTH0_AUDIENCE)
         /\ reqs[r].token.claims.scope = Some("openid place:orders")
         /\ reqs[r].resp[1].order.id = "order_" \o DateNowString(1)
         /\ reqs[r].resp[1].order.total = 16

\* C19: in every variant no order is stored for a request whose verified
\* token says that the user's email is not verified.
C19_UnverifiedNeverStored ==
    \A r \in Reqs :
      LET q == reqs[r] IN
      (q.method = "POST" /\ Stored(q)) => SaysVerified(q.token.claims)

\* Occurrences of v among the first n items of a
Occurrences(a, v, n) == Cardinality({ i \in 1..n : a[i] = v })
\* The length of the shortest prefix of a in which v occurs k times
ReachedAt(a, v, k) ==
    CHOOSE n \in 0..Len(a) :
      /\ Occurrences(a, v, n) = k
      /\ \A m \in 0..(n - 1) : Occurrences(a, v, m) < k

\* C20: getMostFrequent returns null for the empty sequence and otherwise a
\* value of the sequence with the greatest number of occurrences, among
\* those the one whose count reached that number first.
C20_MostFrequent ==
    (call.fn = "getMostFrequent" /\ call.returned) =>
      LET a == call.arr
          most == CHOOSE k \in 0..Len(a) :
                    /\ \E v \in Range(a) : Occurrences(a, v, Len(a)) = k
                    /\ \A v \in Range(a) : Occurrences(a, v, Len(a)) <= k
      IN  IF a = <<>> THEN call.value = Undefined
          ELSE /\ call.value # Undefined
               /\ call.value[1] \in Range(a)
               /\ Occurrences(a, call.value[1], Len(a)) = most
               /\ \A v \in Range(a) :
                    Occurrences(a, v, Len(a)) = most =>
                      ReachedAt(a, call.value[1], most) <= ReachedAt(a, v, most)

\* The profile a builder call returned, and the sum of the totals it was
\* given
Built(c) ==
    /\ c.fn \in {"generateCustomerProfileFromOrders", "generateCustomerProfile"}
    /\ c.returned
DatesParse(a) == ValidDate(a[1].date) /\ ValidDate(a[Len(a)].date)

C22_ProfilesAgree ==
    variant = "dynamodb" =>
      \A u \in Users :
        LET hook == generateCustomerProfile(HookQuery(table, u))
            back == generateCustomerProfileFromOrders(
                       FormattedOrders(Query(table, u)))
        IN  /\ hook.total_orders = back.total_orders
            /\ hook.total_spent = back.total_spent
            /\ hook.average_order_value = back.average_order_value
            /\ hook.favorite_pizza = back.favorite_pizza
            /\ hook.favorite_size = back.favorite_size
            /\ hook.first_order = back.first_order
            /\ hook.last_order = back.last_order

\* C23: in the customer profile of a GET /api/orders answer under the table
\* strategy first_order is the earliest and last_order the latest date of
\* the listed orders, so first_order is not later than last_order.
C23_FirstBeforeLast ==
    variant = "dynamodb" =>
      \A r \in Reqs :
        LET q == reqs[r] IN
        (Listed(q) /\ q.resp[1].orders # <<>>) =>
          LET l == q.resp[1].orders
              p == q.resp[1].customer_profile[1]
              times == { DateParse(l[i].date) : i \in 1..Len(l) }
          IN  /\ p.first_order # Undefined /\ p.last_order # Undefined
              /\ \A t \in times : DateParse(p.first_order[1]) <= t
              /\ \A t \in times : t <= DateParse(p.last_order[1])
              /\ DateParse(p.first_order[1]) <= DateParse(p.last_order[1])

Chain ==
    <<"verifyToken", "verifyIdTokenClaims", "requireEmailVerification",
      "requireScope", "handler">>
IsPrefix(a, b) == Len(a) <= Len(b) /\ SubSeq(b, 1, Len(a)) = a
\* The status each check answers with when it fails
FailureStatus(name) ==
    IF name = "verifyToken" THEN 401
    ELSE IF name \in {"requireEmailVerification", "requireScope"} THEN 403
    ELSE IF name = "handler" THEN 400
    ELSE 0

\* What C24 says of a step: the request as the step leaves it
ChecksInOrder(q, p) ==
    p.method = "POST" =>
      /\ IsPrefix(p.ran, Chain)
      /\ (p.status \in {400, 401, 403}) =>
           /\ p.pc = "done"
           /\ p.status = FailureStatus(p.ran[Len(p.ran)])
           /\ p.order = Undefined /\ p.snapshot = Undefined
      /\ (p.order # Undefined) => (p.ran = Chain)
      /\ (p.pc = "done") <=> (p.status # 0)
      /\ (q.status # 0) => (p = q)

\* C24: on POST /api/orders of the gated variants the checks run in the
\* order token verification, claims trust, email gate, scope gate, body
\* validation, store write; a check that fails answers with its status
\* (401, 403, 403, 400), after which nothing more runs for the request and
\* no order is built or stored; an order is built only after every check
\* ran; a response is never replaced; and every request is answered.
C24_ChecksInOrder ==
    /\ [][(variant \in {"profile", "dynamodb"}) =>
            (\A r \in Reqs : ChecksInOrder(reqs[r], reqs'[r]))]_vars
    /\ \A r \in Reqs : (reqs[r].pc # "idle") ~> (reqs[r].pc = "done")

C24_Witness ==
    /\ variant = "dynamodb"
    /\ \E r \in Reqs :
         /\ reqs[r].method = "POST"
         /\ reqs[r].status = 403
         /\ reqs[r].error = "Insufficient scope"
         /\ reqs[r].ran = <<"verifyToken", "verifyIdTokenClaims",
                            "requireEmailVerification", "requireScope">>

\* What C25 says of the trust result t for the token payload c
TrustOf(c, t) ==
    IF c.token_verified_at # Undefined
    THEN /\ t.verified
         /\ t.emailVerified = c.ns_email_verified
         /\ t.canPlaceOrders = c.ns_can_place_orders
    ELSE /\ ~t.verified
         /\ t.reason # Undefined
         /\ t.emailVerified = Some(c.email_verified = Some(TRUE))
         /\ t.canPlaceOrders = Some(c.email_verified = Some(TRUE))

\* C25: the claims-trust middleware takes both flags from the namespaced
\* claims exactly when the verified-at claim is present (verified: true);
\* otherwise it ignores the namespaced flags and derives both from the raw
\* email_verified claim, false when that is missing, with verified: false
\* and a reason; it never answers the request and always passes it on to
\* the email gate.
C25_ClaimsTrust ==
    [][\A r \in Reqs :
         (reqs[r].pc = "verifyIdTokenClaims" /\ reqs'[r] # reqs[r]) =>
           /\ reqs'[r].pc = "requireEmailVerification"
           /\ reqs'[r].status = 0
           /\ reqs'[r].idTokenVerification # Undefined
           /\ TrustOf(reqs[r].user[1], reqs'[r].idTokenVerification[1])]_vars

C25_Witness ==
    \E r \in Reqs :
      /\ reqs[r].pc = "requireEmailVerification"
      /\ reqs[r].user # Undefined
      /\ reqs[r].user[1].token_verified_at # Undefined
      /\ reqs[r].user[1].ns_email_verified = Some(FALSE)
      /\ reqs[r].user[1].email_verified = Some(TRUE)
      /\ reqs[r].idTokenVerification # Undefined
      /\ reqs[r].idTokenVerification[1].emailVerified = Some(FALSE)

\* The orders stored for user u, in the table and in the user's metadata
StoreOf(u) == <<{ i \in table : i.user_id = u }, userMetadata[u]>>
OwnerOf(o) == IF variant = "dynamodb" THEN o.user_id ELSE o.userId

\* C26: an order is stored under the subject of the token that placed it,
\* whatever user id the body names; a listing holds only orders stored under
\* the subject of the token that asked for it; and the orders stored for a
\* user change only in a step of a POST request made with that user's token.
C26_TenantIsolation ==
    [][/\ \A r \in Reqs :
            /\ reqs'[r].order # Undefined =>
                 OwnerOf(reqs'[r].order[1]) = reqs'[r].token.claims.sub
            /\ Listed(reqs'[r]) =>
                 \A k \in 1..Len(reqs'[r].resp[1].orders) :
                    reqs'[r].resp[1].orders[k].userId = reqs'[r].token.claims.sub
       /\ \A i \in table' : i.user_id \in Users
       /\ \A u \in Users :
            /\ \A k \in 1..Len(userMetadata'[u]) : userMetadata'[u][k].userId = u
            /\ StoreOf(u)' # StoreOf(u) =>
                 \E r \in Reqs :
                    /\ reqs[r].method = "POST"
                    /\ reqs[r].token.claims.sub = u
                    /\ reqs[r].pc \in {"awaitPut", "awaitUpdateUser"}
                    /\ reqs'[r].pc = "done"]_vars

C26_Witness ==
    /\ Listed(reqs[1])
    /\ reqs[1].token.claims.sub = "auth0|u1"
    /\ Len(reqs[1].resp[1].orders) > 0
    /\ \/ \E i \in table : i.user_id = "auth0|u2"
       \/ Len(userMetadata["auth0|u2"]) > 0

\* C27: a POST /api/orders answered with 400, 401 or 403 leaves the stored
\* orders as they were: the request built no order, read no order list for a
\* read-modify-write, and no step it took changed the table or any user's
\* metadata.
C27_RejectedLeavesStore ==
    [][\A r \in Reqs :
         (reqs'[r].method = "POST" /\ reqs'[r].status \in {400, 401, 403}) =>
           /\ reqs'[r].order = Undefined
           /\ reqs'[r].snapshot = Undefined
           /\ reqs'[r].pc = "done"
           /\ reqs'[r] # reqs[r] =>
                (table' = table /\ userMetadata' = userMetadata)]_vars

C27_Witness ==
    /\ reqs[1].method = "POST"
    /\ reqs[1].status \in {400, 403}
    /\ \/ table # {}
       \/ \E u \in Users : Len(userMetadata[u]) > 0

\* C28: when a statement of the post-login hook's body throws, the login
\* does not fail and the ID token still carries the email_verified,
\* can_place_orders and token_verified_at claims, so that the backend's
\* claims trust finds it verified by the hook.
C28_HookFailureKeepsClaims ==
    (call.fn = "onExecutePostLogin" /\ call.returned
       /\ call.arr[1].throwsAt > 0) =>
      /\ ~call.value.loginFailed
      /\ {"email_verified", "can_place_orders", "token_verified_at"}
            \subseteq call.value.claims
      /\ IdTokenVerification(IdTokenPayload(call.arr[1], call.value.claims)).verified

\* C29: the Add-Order-History hook sets order_history to the last orders of
\* the stored list, ten at most, in the order they are stored in; for a
\* user without stored orders it sets neither order_history nor
\* customer_profile; and the login is not failed, also when the hook throws.
C29_OrderHistory ==
    (call.fn \in {"AddOrderHistory", "AddOrderHistory throws"} /\ call.returned) =>
      LET stored == call.arr
          h == call.value.order_history
      IN
      /\ ~call.value.loginFailed
      /\ Len(stored) = 0 =>
           (h = Undefined /\ call.value.customer_profile = Undefined)
      /\ Len(stored) > 0 =>
           /\ h # Undefined
           /\ Len(h[1]) <= 10
           /\ Len(h[1]) = Len(stored) \/ Len(h[1]) = 10
           /\ \A k \in 1..Len(h[1]) :
                h[1][k] = stored[Len(stored) - Len(h[1]) + k]

C29_Witness ==
    /\ call.fn = "AddOrderHistory"
    /\ call.returned
    /\ Len(call.arr) = 11
    /\ call.arr[1].pizza = "Pepperoni"
    /\ call.arr[2].pizza = "Margherita"
    /\ call.value.order_history # Undefined
    /\ call.value.order_history[1][1].pizza = "Margherita"
====
